---- MODULE Spec2Model ----
(***************************************************************************)
(* Model of the meeting assistant.  The client of src/app.py: the two      *)
(* functions bound to the UI buttons, get_all_insights_from_modal and      *)
(* ask_question_on_transcript, with the remote endpoint and the network    *)
(* as the environment.  The services of src/modal_insights_app.py and      *)
(* src/modal_qna_app.py: their endpoints and processors, with the hosting  *)
(* platform and the text-generation pipeline as the environment.  Python   *)
(* strings are TLA+ strings; a returned tuple is a sequence of strings.    *)
(***************************************************************************)
EXTENDS Integers, Sequences, FiniteSets, TLC

VARIABLES
    insightsUrl,  \* MODAL_INSIGHTS_ENDPOINT_URL
    qnaUrl,       \* MODAL_QNA_ENDPOINT_URL
    cur,          \* the call in progress: its inputs, position and result
    ref,          \* the result of one earlier completed call, kept to compare
    stub,         \* the stub server of a test: its canned responses and counter
    peer,         \* a second call, in progress at the same time as cur
    svc           \* the request a service is handling, endpoint and processor

vars == <<insightsUrl, qnaUrl, cur, ref, stub, peer, svc>>

\* the variables the single-call actions of the client leave alone
others == <<stub, peer, svc>>

(***************************************************************************)
(* Bounds                                                                  *)
(***************************************************************************)
\* longest transcript / question typed by the user
MaxLen == 2

\* characters the user types: a whitespace character and a letter
Alphabet == {" ", "a"}

(***************************************************************************)
(* Python string operations                                                *)
(***************************************************************************)
\* str.isspace for one character
IsSpace(c) == c \in {" ", "\t", "\n", "\r", "\f"}

RECURSIVE LStrip(_)
LStrip(s) ==
    IF s = "" THEN ""
    ELSE IF IsSpace(Head(s)) THEN LStrip(Tail(s)) ELSE s

RECURSIVE RStrip(_)
RStrip(s) ==
    IF s = "" THEN ""
    ELSE IF IsSpace(SubSeq(s, Len(s), Len(s)))
         THEN RStrip(SubSeq(s, 1, Len(s) - 1))
         ELSE s

\* str.strip()
Strip(s) == RStrip(LStrip(s))

\* str.startswith(p)
StartsWith(s, p) == Len(s) >= Len(p) /\ SubSeq(s, 1, Len(p)) = p

\* sub in s
Contains(s, sub) ==
    \E i \in 1..(Len(s) - Len(sub) + 1) : SubSeq(s, i, i + Len(sub) - 1) = sub

Digits == <<"0", "1", "2", "3", "4", "5", "6", "7", "8", "9">>

\* str(n) for a natural number, as an f-string formats a status code
RECURSIVE IntToStr(_)
IntToStr(n) ==
    IF n < 10 THEN Digits[n + 1]
    ELSE IntToStr(n \div 10) \o Digits[(n % 10) + 1]

RECURSIVE StrsOfLen(_)
StrsOfLen(n) ==
    IF n = 0 THEN {""}
    ELSE {c \o s : c \in Alphabet, s \in StrsOfLen(n - 1)}

\* what the user can type into a text box
UserTexts == UNION {StrsOfLen(n) : n \in 0..MaxLen}

(***************************************************************************)
(* Configuration and the fixed strings of src/app.py                       *)
(***************************************************************************)
\* the two URLs as deployed
DeployedInsightsUrl == "https://mehdinathani--ai-meeting-insights-service-v2-get-insights.modal.run"
DeployedQnaUrl == "https://mehdinathani--ai-meeting-qna-service-v2-1-guardrails-ask-74022e.modal.run"

\* the placeholder tokens the URLs are compared with
InsightsUrlPlaceholder == "YOUR_MODAL_URL_FOR_ai-meeting-processor-v6-6-qna_MAIN_ENDPOINT"
QnaUrlPlaceholder == "YOUR_MODAL_URL_FOR_ai-meeting-processor-v6-6-qna_QNA_ENDPOINT"

\* values the URL constants can be edited to: deployed, placeholder, empty,
\* and a well-formed address without the secure scheme
InsightsUrls == {DeployedInsightsUrl, InsightsUrlPlaceholder, "", "http://insights.modal.run"}
QnaUrls == {DeployedQnaUrl, QnaUrlPlaceholder, "", "http://qna.modal.run"}

\* timeout= arguments of the two requests.post calls, in seconds
InsightsTimeout == 300
QnaTimeout == 180

err_summary == "Error: Could not retrieve summary."
err_decisions == "Error: Could not retrieve decisions."
err_actions == "Error: Could not retrieve action items."
err_sentiment == "Error: Could not retrieve sentiment."
err_answer == "Error: Could not retrieve answer."

\* (the source quotes app.py with grave accents, a character a TLA+ string
\* cannot hold: it is written ' here)
InsightsConfigMsg == "Insights Modal endpoint URL not correctly configured in 'app.py'."
QnaConfigMsg == "Q&A Modal endpoint URL not correctly configured in 'app.py'."
InsightsBlankMsg == "Please enter some transcript text first."
QnaBlankTranscriptMsg == "Please provide the meeting transcript before asking a question."
QnaBlankQuestionMsg == "Please enter a question to ask."

InsightKeys == <<"summary", "decisions", "actions", "sentiment">>

\* InsightDefault with one placeholder shared by the four fields
InsightDefault_Shared(k) == "Not provided."

\* the default of each results.get(key, default)
InsightDefault(k) ==
    CASE k = "summary" -> "Summary not provided."
      [] k = "decisions" -> "Decisions not provided."
      [] k = "actions" -> "Action items not provided."
      [] k = "sentiment" -> "Sentiment not provided."

\* an empty default for the answer
AnswerDefault_Empty == ""

AnswerDefault == "Answer not provided by AI service."

(***************************************************************************)
(* JSON values: [kind, d].  A JSON object is a function from the keys it   *)
(* holds to their string values; the other kinds carry no content here.    *)
(***************************************************************************)
EmptyDict == [k \in {} |-> ""]

JsonDict(d) == [kind |-> "dict", d |-> d]
JsonInvalid == [kind |-> "invalid", d |-> EmptyDict]  \* body is not JSON
JsonNull == [kind |-> "null", d |-> EmptyDict]        \* body is null
JsonList == [kind |-> "list", d |-> EmptyDict]        \* body is []
JsonNumber == [kind |-> "number", d |-> EmptyDict]    \* body is 0
JsonNone == [kind |-> "none", d |-> EmptyDict]        \* no body at all

\* key in d
HasKey(d, k) == k \in DOMAIN d

\* d.get(k, default)
DictGet(d, k, default) == IF k \in DOMAIN d THEN d[k] ELSE default

(***************************************************************************)
(* Exceptions: [cls, text], text being str(e).  NoExc is "no exception".   *)
(***************************************************************************)
Exc(cls, text) == [cls |-> cls, text |-> text]
NoExc == Exc("", "")

(***************************************************************************)
(* The environment: what requests.post can do with one request.  It either *)
(* raises, or returns a response [status, reason, body].                   *)
(***************************************************************************)
\* exception classes requests.post raises, and the texts they carry (an
\* exception built without arguments has the empty text)
PostExcClasses == {"Timeout", "ConnectionError", "RuntimeError"}

PostExcTexts(cls) ==
    CASE cls = "Timeout" -> {"", "Read timed out. (read timeout=300)"}
      [] cls = "ConnectionError" -> {"", "Connection refused"}
      [] cls = "RuntimeError" -> {"", "unexpected"}

PostExceptions ==
    UNION {{Exc(cls, text) : text \in PostExcTexts(cls)} : cls \in PostExcClasses}

\* reason phrase of a status line
Reason(status) ==
    CASE status = 200 -> "OK"
      [] status = 400 -> "Bad Request"
      [] status = 500 -> "Internal Server Error"

Response(status, body) ==
    [exc |-> NoExc, status |-> status, reason |-> Reason(status), body |-> body]

Raised(e) == [exc |-> e, status |-> 0, reason |-> "", body |-> JsonNone]

NoOutcome == [exc |-> NoExc, status |-> 0, reason |-> "", body |-> JsonNone]

\* all JSON objects over the keys K, each key either absent or holding one
\* of the values Val[k]
RECURSIVE DictsOver(_, _)
DictsOver(K, Val) ==
    IF K = {} THEN {EmptyDict}
    ELSE LET k == CHOOSE x \in K : TRUE
             rest == DictsOver(K \ {k}, Val)
         IN  rest \cup {d @@ (k :> v) : d \in rest, v \in Val[k]}

\* values the insights service puts in a field
InsightsFieldValues ==
    [summary |-> {"The team agreed on the plan."},
     decisions |-> {"- Ship on Monday"},
     actions |-> {"- Maria: share wireframes"},
     sentiment |-> {"Positive"},
     error |-> {"", "model failed"}]

\* a response that repeats the client's own fixed texts
InsightsEchoDicts ==
    { [k \in {"summary", "decisions", "actions", "sentiment"} |->
          IF k = "summary" THEN InsightsBlankMsg ELSE ""],
      [k \in {"summary", "decisions", "actions", "sentiment"} |->
          CASE k = "summary" -> InsightsConfigMsg
            [] k = "decisions" -> err_decisions
            [] k = "actions" -> err_actions
            [] k = "sentiment" -> err_sentiment] }

InsightsDicts ==
    DictsOver({"summary", "decisions", "actions", "sentiment", "error"}, InsightsFieldValues)
        \cup InsightsEchoDicts

QnaFieldValues ==
    [answer |-> {"Maria will share the wireframes.", QnaConfigMsg},
     error |-> {"", "model failed"}]

QnaDicts == DictsOver({"answer", "error"}, QnaFieldValues)

\* bodies of an error status: not JSON, or the service's {"error": ...}
ErrorBodies == {JsonInvalid, JsonDict("error" :> "Invalid transcript")}

OtherBodies == {JsonInvalid, JsonNull, JsonList, JsonNumber}

InsightsOutcomes ==
    {Raised(e) : e \in PostExceptions}
        \cup {Response(200, JsonDict(d)) : d \in InsightsDicts}
        \cup {Response(200, b) : b \in OtherBodies}
        \cup {Response(st, b) : st \in {400, 500}, b \in ErrorBodies}

QnaOutcomes ==
    {Raised(e) : e \in PostExceptions}
        \cup {Response(200, JsonDict(d)) : d \in QnaDicts}
        \cup {Response(200, b) : b \in OtherBodies}
        \cup {Response(st, b) : st \in {400, 500}, b \in ErrorBodies}

(***************************************************************************)
(* The library calls the client makes on a response                        *)
(***************************************************************************)
\* response.url: the request URL as prepared, an empty path becoming "/"
ResponseUrl(url) == url \o "/"

\* RaiseForStatus raising on the 5xx statuses only
RaiseForStatus_ServerOnly(o, url) ==
    IF 500 <= o.status /\ o.status < 600
    THEN Exc("HTTPError", IntToStr(o.status) \o " Server Error: " \o o.reason
                              \o " for url: " \o ResponseUrl(url))
    ELSE NoExc

\* response.raise_for_status(): the HTTPError it raises, or NoExc
RaiseForStatus(o, url) ==
    IF 400 <= o.status /\ o.status < 500
    THEN Exc("HTTPError", IntToStr(o.status) \o " Client Error: " \o o.reason
                              \o " for url: " \o ResponseUrl(url))
    ELSE IF 500 <= o.status /\ o.status < 600
    THEN Exc("HTTPError", IntToStr(o.status) \o " Server Error: " \o o.reason
                              \o " for url: " \o ResponseUrl(url))
    ELSE NoExc

\* response.json(): the JSONDecodeError it raises on a body that is not JSON,
\* or NoExc
JsonError(body) ==
    IF body.kind = "invalid"
    THEN Exc("JSONDecodeError", "Expecting value: line 1 column 1 (char 0)")
    ELSE NoExc

\* json.JSONDecodeError(msg, doc, 0) as str() shows it
ParsedToNone(msg) == Exc("JSONDecodeError", msg \o ": line 1 column 1 (char 0)")

\* "error" in results, and results.get, on a parsed value that is no object
NotADict(body) ==
    CASE body.kind = "number" -> Exc("TypeError", "argument of type 'int' is not iterable")
      [] body.kind = "list" -> Exc("AttributeError", "'list' object has no attribute 'get'")
      [] OTHER -> NoExc

(***************************************************************************)
(* get_all_insights_from_modal                                             *)
(***************************************************************************)
\* the outcome of a piece of the function: it returns `out` at `site`, or
\* raises `exc`; `parsed` tells whether response.json() was called
Return(site, out, parsed) ==
    [ret |-> "return", site |-> site, out |-> out, exc |-> NoExc, parsed |-> parsed]

Raise(e, parsed) ==
    [ret |-> "raise", site |-> "", out |-> <<>>, exc |-> e, parsed |-> parsed]

\* UrlMisconfigured without the test of the scheme
UrlMisconfigured_NoScheme(url, placeholder) ==
    \/ url = placeholder
    \/ url = ""

\* the test on the endpoint URL
UrlMisconfigured(url, placeholder) ==
    \/ url = placeholder
    \/ url = ""
    \/ ~StartsWith(url, "https://")

\* IsBlank without the strip: only the empty string counts as blank
IsBlank_NoStrip(text) == text = ""

\* not text.strip()
IsBlank(text) == Strip(text) = ""

\* the return of the configuration test
InsightsConfigError == <<InsightsConfigMsg, err_decisions, err_actions, err_sentiment>>

\* the return of the blank-transcript test
InsightsBlankReturn == <<InsightsBlankMsg, "", "", "", "">>

\* InsightsServiceError filling the other slots with the error placeholders
InsightsServiceError_Placeholders(e) ==
    <<"AI Service Error (Insights): " \o e, err_decisions, err_actions, err_sentiment>>

\* the return on a non-empty error field
InsightsServiceError(e) == <<"AI Service Error (Insights): " \o e, "", "", "">>

\* InsightsFields with the decisions and actions keys exchanged
InsightsFields_Swapped(results) ==
    <<DictGet(results, "summary", "Summary not provided."),
      DictGet(results, "actions", "Decisions not provided."),
      DictGet(results, "decisions", "Action items not provided."),
      DictGet(results, "sentiment", "Sentiment not provided.")>>

\* the four results.get calls
InsightsFields(results) ==
    <<DictGet(results, "summary", InsightDefault("summary")),
      DictGet(results, "decisions", InsightDefault("decisions")),
      DictGet(results, "actions", InsightDefault("actions")),
      DictGet(results, "sentiment", InsightDefault("sentiment"))>>

\* the body of the try statement, from requests.post to the last return
InsightsTry(url, o) ==
    IF o.exc # NoExc THEN Raise(o.exc, FALSE)
    ELSE IF RaiseForStatus(o, url) # NoExc THEN Raise(RaiseForStatus(o, url), FALSE)
    ELSE IF JsonError(o.body) # NoExc THEN Raise(JsonError(o.body), TRUE)
    ELSE IF o.body.kind = "null" THEN Raise(ParsedToNone("JSON parsed to None"), TRUE)
    ELSE IF NotADict(o.body) # NoExc THEN Raise(NotADict(o.body), TRUE)
    ELSE LET results == o.body.d
         IN  IF HasKey(results, "error") /\ results["error"] # ""
             THEN Return("service_error", InsightsServiceError(results["error"]), TRUE)
             ELSE Return("ok", InsightsFields(results), TRUE)

\* an except clause that catches the transport and HTTP errors only
CaughtByExceptException_RequestsOnly(cls) ==
    cls \in {"Timeout", "ConnectionError", "HTTPError"}

\* except Exception as e: the classes the clause catches
CaughtByExceptException(cls) == cls # ""

\* InsightsExcept leaving the other slots empty
InsightsExcept_Blanks(e) == <<"Error processing insights: " \o e.text, "", "", "">>

\* InsightsExcept without the exception's text
InsightsExcept_NoText(e) ==
    <<"Error processing insights.", err_decisions, err_actions, err_sentiment>>

\* the return of the except clause
InsightsExcept(e) ==
    <<"Error processing insights: " \o e.text, err_decisions, err_actions, err_sentiment>>

(***************************************************************************)
(* ask_question_on_transcript                                              *)
(***************************************************************************)
\* the return on a non-empty error field
QnaServiceError(e) == <<"Q&A Service Error: " \o e>>

\* QnaResults returning the answer whenever the object has one
QnaResults_AnswerFirst(results) ==
    IF HasKey(results, "answer")
    THEN Return("ok", <<results["answer"]>>, TRUE)
    ELSE IF HasKey(results, "error") /\ results["error"] # ""
    THEN Return("service_error", QnaServiceError(results["error"]), TRUE)
    ELSE Return("ok", <<AnswerDefault>>, TRUE)

\* what is returned for a parsed object: the error when it carries a
\* non-empty one, else the answer or its placeholder
QnaResults(results) ==
    IF HasKey(results, "error") /\ results["error"] # ""
    THEN Return("service_error", QnaServiceError(results["error"]), TRUE)
    ELSE Return("ok", <<DictGet(results, "answer", AnswerDefault)>>, TRUE)

\* the body of the try statement
QnaTry(url, o) ==
    IF o.exc # NoExc THEN Raise(o.exc, FALSE)
    ELSE IF RaiseForStatus(o, url) # NoExc THEN Raise(RaiseForStatus(o, url), FALSE)
    ELSE IF JsonError(o.body) # NoExc THEN Raise(JsonError(o.body), TRUE)
    ELSE IF o.body.kind = "null"
         THEN Raise(ParsedToNone("JSON parsed to None for Q&A"), TRUE)
    ELSE IF NotADict(o.body) # NoExc THEN Raise(NotADict(o.body), TRUE)
    ELSE QnaResults(o.body.d)

\* QnaExcept without the exception's text
QnaExcept_NoText(e) == <<"Error during Q&A processing.">>

\* the return of the except clause
QnaExcept(e) == <<"Error during Q&A processing: " \o e.text>>

\* QnaPrecheck with the question tested before the transcript
QnaPrecheck_QuestionFirst(url, t, q) ==
    IF UrlMisconfigured(url, QnaUrlPlaceholder)
    THEN [site |-> "config", out |-> <<QnaConfigMsg>>]
    ELSE IF IsBlank(q)
    THEN [site |-> "blank_question", out |-> <<QnaBlankQuestionMsg>>]
    ELSE IF IsBlank(t)
    THEN [site |-> "blank_transcript", out |-> <<QnaBlankTranscriptMsg>>]
    ELSE [site |-> "", out |-> <<>>]

\* the three tests made before the request, in the order of the code: the
\* return taken by the first that fails, site "" when all pass
QnaPrecheck(url, t, q) ==
    IF UrlMisconfigured(url, QnaUrlPlaceholder)
    THEN [site |-> "config", out |-> <<QnaConfigMsg>>]
    ELSE IF IsBlank(t)
    THEN [site |-> "blank_transcript", out |-> <<QnaBlankTranscriptMsg>>]
    ELSE IF IsBlank(q)
    THEN [site |-> "blank_question", out |-> <<QnaBlankQuestionMsg>>]
    ELSE [site |-> "", out |-> <<>>]

(***************************************************************************)
(* A call: the function, its arguments, where it stands, and what it did.  *)
(*   pc       "idle", "waiting" (blocked in requests.post) or "done"       *)
(*   net      requests issued by this call                                 *)
(*   request  the request it issued: [url, json, timeout]                  *)
(*   outcome  what requests.post did                                       *)
(*   site     the return statement taken: "config", "blank_transcript",    *)
(*            "blank_question", "service_error", "ok" or "except"          *)
(*   exc      the exception the except clause caught                       *)
(*   raised   an exception left the function                               *)
(*   out      the returned tuple                                           *)
(***************************************************************************)
NoRequest == [url |-> "", json |-> EmptyDict, timeout |-> 0]

Idle ==
    [fn |-> "none", pc |-> "idle", transcript |-> "", question |-> "",
     net |-> 0, request |-> NoRequest, outcome |-> NoOutcome, parsed |-> FALSE,
     site |-> "", exc |-> NoExc, raised |-> FALSE, out |-> <<>>]

\* a call that returns without touching the network
ReturnedEarly(fn, t, q, site, out) ==
    [Idle EXCEPT !.fn = fn, !.pc = "done", !.transcript = t, !.question = q,
                 !.site = site, !.out = out]

\* Posted with the payload built in a dictionary the two functions share:
\* the keys of a request still in flight stay in it
Posted_SharedPayload(fn, t, q, url, payload, timeout) ==
    LET other == IF fn = "insights" THEN peer ELSE cur
        shared == IF other.pc = "waiting" THEN payload @@ other.request.json
                  ELSE payload
    IN  [Idle EXCEPT !.fn = fn, !.pc = "waiting", !.transcript = t, !.question = q,
                     !.net = 1,
                     !.request = [url |-> url, json |-> shared, timeout |-> timeout]]

\* a call blocked in requests.post(url, headers=..., json=payload, timeout=...)
Posted(fn, t, q, url, payload, timeout) ==
    [Idle EXCEPT !.fn = fn, !.pc = "waiting", !.transcript = t, !.question = q,
                 !.net = 1,
                 !.request = [url |-> url, json |-> payload, timeout |-> timeout]]

\* Finished with the request issued once more after an exception
Finished_Retry(c, o, r, handled) ==
    IF r.ret = "return"
    THEN [c EXCEPT !.pc = "done", !.outcome = o, !.parsed = r.parsed,
                   !.site = r.site, !.out = r.out]
    ELSE [c EXCEPT !.pc = "done", !.outcome = o, !.parsed = r.parsed,
                   !.net = c.net + 1,
                   !.site = "except", !.exc = r.exc, !.out = handled]

\* the call once requests.post has done o and the try statement has run to
\* r: a return, an exception caught by the except clause (which returns
\* handled), or one that leaves
Finished(c, o, r, handled) ==
    IF r.ret = "return"
    THEN [c EXCEPT !.pc = "done", !.outcome = o, !.parsed = r.parsed,
                   !.site = r.site, !.out = r.out]
    ELSE IF CaughtByExceptException(r.exc.cls)
    THEN [c EXCEPT !.pc = "done", !.outcome = o, !.parsed = r.parsed,
                   !.site = "except", !.exc = r.exc, !.out = handled]
    ELSE [c EXCEPT !.pc = "done", !.outcome = o, !.parsed = r.parsed,
                   !.raised = TRUE]

\* what is kept of a completed call: what it returned and how, not its
\* arguments nor the response it was given
Snapshot(c) ==
    [c EXCEPT !.transcript = "", !.question = "", !.request = NoRequest,
              !.outcome = NoOutcome]

(***************************************************************************)
(* The services of src/modal_insights_app.py and src/modal_qna_app.py: an  *)
(* endpoint that validates the request and calls the processor remotely,   *)
(* and a processor that runs the text-generation pipeline.                 *)
(***************************************************************************)
\* a value held by a key of request_data: [kind, s], the kinds being a
\* string, an integer (s its digits), null, or "absent" for a missing key
PyStr(s) == [kind |-> "str", s |-> s]
PyInt(s) == [kind |-> "int", s |-> s]
PyNone == [kind |-> "none", s |-> ""]
PyAbsent == [kind |-> "absent", s |-> ""]

RequestValues ==
    {PyAbsent, PyNone, PyInt("0"), PyInt("5")} \cup {PyStr(s) : s \in UserTexts}

\* request_data.get(k), v being what the key holds
RequestGet(v) == IF v.kind = "absent" THEN PyNone ELSE v

\* the truth value Python gives v
Truthy(v) ==
    CASE v.kind = "str" -> v.s # ""
      [] v.kind = "int" -> v.s # "0"
      [] OTHER -> FALSE

\* a validation that tests only whether the value is empty
InvalidText_TruthOnly(v) == ~Truthy(v)

\* not v or not isinstance(v, str) or not v.strip()
InvalidText(v) == ~Truthy(v) \/ v.kind # "str" \/ Strip(v.s) = ""

\* what the pipeline does with one prompt: it raises, it returns a list
\* without generated_text, or it returns the prompt followed by text
PipelineRaises(e) == [kind |-> "raise", exc |-> e, text |-> ""]
PipelineUnexpected == [kind |-> "unexpected", exc |-> NoExc, text |-> ""]
PipelineText(text) == [kind |-> "text", exc |-> NoExc, text |-> text]

PipelineOutcomes ==
    {PipelineRaises(Exc("RuntimeError", "")),
     PipelineRaises(Exc("RuntimeError", "CUDA out of memory")),
     PipelineUnexpected,
     PipelineText(" The team agreed on the plan. "),
     PipelineText("")}

\* _generate_text_from_prompt: the text after "[/INST]" stripped, or the
\* exception raised; tag is the service's prefix in the ValueError
GenerateTextFromPrompt(tag, g) ==
    CASE g.kind = "raise" -> [exc |-> g.exc, text |-> ""]
      [] g.kind = "unexpected" ->
            [exc |-> Exc("ValueError", tag \o ": LLM output unexpected: []"),
             text |-> ""]
      [] g.kind = "text" -> [exc |-> NoExc, text |-> Strip(g.text)]

InsightsTag == "INSIGHTS_SVC _generate_text (v2)"
QnaTag == "QNA_SVC _generate_text (v2.1-guardrails)"

\* the four generation steps of process_transcript_insights, in order: the
\* key each fills, its label in the error list, its text on failure
StepKeys == <<"summary", "decisions", "actions", "sentiment">>
StepLabels == <<"Summary", "Decisions", "Actions", "Sentiment">>
StepErrorTexts ==
    <<"Error generating summary.", "Error generating decisions.",
      "Error generating actions.", "Error analyzing sentiment.">>

\* sep.join(strs)
RECURSIVE Join(_, _)
Join(strs, sep) ==
    IF strs = <<>> THEN ""
    ELSE IF Len(strs) = 1 THEN strs[1]
    ELSE strs[1] \o sep \o Join(Tail(strs), sep)

\* results at the start of process_transcript_insights
InsightsResultsInit ==
    [k \in {"summary", "decisions", "actions", "sentiment", "error"} |-> ""]

\* InsightsStep with each failure put at the head of errors
InsightsStep_Prepend(results, errors, k, g) ==
    LET r == GenerateTextFromPrompt(InsightsTag, g)
    IN  IF r.exc = NoExc
        THEN [results |-> [results EXCEPT ![StepKeys[k]] = r.text], errors |-> errors]
        ELSE [results |-> [results EXCEPT ![StepKeys[k]] = StepErrorTexts[k]],
              errors |-> <<StepLabels[k] \o ": " \o r.exc.text>> \o errors]

\* InsightsStep with the append to errors placed after the try statement
InsightsStep_Logged(results, errors, k, g) ==
    LET r == GenerateTextFromPrompt(InsightsTag, g)
    IN  [results |-> [results EXCEPT ![StepKeys[k]] =
                          IF r.exc = NoExc THEN r.text ELSE StepErrorTexts[k]],
         errors |-> Append(errors, StepLabels[k] \o ": " \o r.exc.text)]

\* one try/except of process_transcript_insights: step k with the
\* pipeline doing g, on the results and errors so far
InsightsStep(results, errors, k, g) ==
    LET r == GenerateTextFromPrompt(InsightsTag, g)
    IN  IF r.exc = NoExc
        THEN [results |-> [results EXCEPT ![StepKeys[k]] = r.text], errors |-> errors]
        ELSE [results |-> [results EXCEPT ![StepKeys[k]] = StepErrorTexts[k]],
              errors |-> Append(errors, StepLabels[k] \o ": " \o r.exc.text)]

\* the end of process_transcript_insights: error set when errors is not empty
InsightsReturn(results, errors) ==
    IF errors # <<>> THEN [results EXCEPT !["error"] = Join(errors, "; ")]
    ELSE results

\* the return of either processor whose text_generator is not set
InsightsNotLoaded == "error" :> "LLM not loaded."
QnaNotLoaded == ("answer" :> "Error: AI Model not loaded.") @@ ("error" :> "LLM not loaded.")

\* the try/except of answer_question_on_transcript
QnaAnswer(g) ==
    LET r == GenerateTextFromPrompt(QnaTag, g)
    IN  IF r.exc = NoExc
        THEN ("answer" :> r.text) @@ ("error" :> "")
        ELSE ("answer" :> "Error: Could not generate answer from AI.")
                 @@ ("error" :> ("Error generating answer: " \o r.exc.cls
                                     \o " - " \o r.exc.text))

(***************************************************************************)
(* Actions                                                                 *)
(***************************************************************************)
\* the call is one of the function named and has returned
InsightsDone(c) == c.fn = "insights" /\ c.pc = "done"
QnaDone(c) == c.fn = "qna" /\ c.pc = "done"

\* get_all_insights_from_modal up to its first return or to requests.post
InsightsStart(url, t) ==
    IF UrlMisconfigured(url, InsightsUrlPlaceholder)
    THEN ReturnedEarly("insights", t, "", "config", InsightsConfigError)
    ELSE IF IsBlank(t)
    THEN ReturnedEarly("insights", t, "", "blank_transcript", InsightsBlankReturn)
    ELSE Posted("insights", t, "", url, "transcript" :> t, InsightsTimeout)

\* InsightsEnd with a module-level count of the requests made so far
\* written into the summary
InsightsEnd_Numbered(c, o) ==
    LET r == InsightsTry(c.request.url, o)
        f == Finished(c, o, r, InsightsExcept(r.exc))
    IN  IF f.out = <<>> THEN f
        ELSE [f EXCEPT !.out = <<f.out[1] \o IntToStr(stub.calls)>> \o Tail(f.out)]

\* get_all_insights_from_modal from the end o of requests.post to its return
InsightsEnd(c, o) ==
    LET r == InsightsTry(c.request.url, o)
    IN  Finished(c, o, r, InsightsExcept(r.exc))

\* ask_question_on_transcript up to its first return or to requests.post
QnaStart(url, t, q) ==
    LET pre == QnaPrecheck(url, t, q)
    IN  IF pre.site # ""
        THEN ReturnedEarly("qna", t, q, pre.site, pre.out)
        ELSE Posted("qna", t, q, url,
                    ("transcript" :> t) @@ ("question" :> q), QnaTimeout)

\* ask_question_on_transcript from the end o of requests.post to its return
QnaEnd(c, o) ==
    LET r == QnaTry(c.request.url, o)
    IN  Finished(c, o, r, QnaExcept(r.exc))

\* a service with no request in hand
\*   app      "insights" or "qna"
\*   pc       "idle", "calling" (the endpoint is at .remote), "processing"
\*            (the processor runs its generation steps), "returned" (the
\*            processor has returned to the endpoint) or "done"
\*   remote   remote processor calls made for the request
\*   mode     what .remote gave the endpoint: "dict", "awaitable", or a
\*            failure "raises", "await_raises", "other", "awaitable_nondict"
\*   loaded   the processor's text_generator is set
\*   gens     what the pipeline did at each generation step so far
\*   result   the dict the processor returned
SvcIdle ==
    [app |-> "none", pc |-> "idle", transcript |-> PyAbsent, question |-> PyAbsent,
     remote |-> 0, mode |-> "", loaded |-> FALSE, gens |-> <<>>,
     results |-> EmptyDict, errors |-> <<>>, result |-> EmptyDict,
     raised |-> FALSE, response |-> NoOutcome]

\* no stub: the endpoint and the network answer a request in any way
AnyNetwork == [ins |-> NoOutcome, qna |-> NoOutcome, calls |-> 0]

Init ==
    /\ insightsUrl \in InsightsUrls
    /\ qnaUrl \in QnaUrls
    /\ cur = Idle
    /\ ref = Idle
    /\ stub = AnyNetwork
    /\ peer = Idle
    /\ svc = SvcIdle

\* the user presses "Get All Insights": the function runs up to its first
\* return or to requests.post
InsightsCall(t) ==
    /\ cur.pc = "idle"
    /\ cur' = InsightsStart(insightsUrl, t)
    /\ UNCHANGED <<insightsUrl, qnaUrl, ref, others>>

\* requests.post ends with o and the function runs to its return
InsightsResume(o) ==
    /\ cur.pc = "waiting"
    /\ cur.fn = "insights"
    /\ cur' = InsightsEnd(cur, o)
    /\ UNCHANGED <<insightsUrl, qnaUrl, ref, others>>

\* the user presses "Ask Question"
QnaCall(t, q) ==
    /\ cur.pc = "idle"
    /\ cur' = QnaStart(qnaUrl, t, q)
    /\ UNCHANGED <<insightsUrl, qnaUrl, ref, others>>

QnaResume(o) ==
    /\ cur.pc = "waiting"
    /\ cur.fn = "qna"
    /\ cur' = QnaEnd(cur, o)
    /\ UNCHANGED <<insightsUrl, qnaUrl, ref, others>>

\* the result goes to the output widgets and is the one kept to compare
\* later results with
Remember ==
    /\ cur.pc = "done"
    /\ ref' = Snapshot(cur)
    /\ cur' = Idle
    /\ UNCHANGED <<insightsUrl, qnaUrl, others>>

\* the result goes to the output widgets
Forget ==
    /\ cur.pc = "done"
    /\ cur' = Idle
    /\ UNCHANGED <<insightsUrl, qnaUrl, ref, others>>

\* the URL constants are edited and the application started again; what the
\* earlier application returned stays on record in ref
Reconfigure(ui, uq) ==
    /\ cur.pc = "idle"
    /\ <<ui, uq>> # <<insightsUrl, qnaUrl>>
    /\ insightsUrl' = ui
    /\ qnaUrl' = uq
    /\ UNCHANGED <<cur, ref, others>>

Next ==
    \/ \E ui \in InsightsUrls, uq \in QnaUrls : Reconfigure(ui, uq)
    \/ \E t \in UserTexts : InsightsCall(t)
    \/ \E o \in InsightsOutcomes : InsightsResume(o)
    \/ \E t \in UserTexts, q \in UserTexts : QnaCall(t, q)
    \/ \E o \in QnaOutcomes : QnaResume(o)
    \/ Remember
    \/ Forget

Spec == Init /\ [][Next]_vars

(***************************************************************************)
(* The client against a deterministic stub server: every insights request  *)
(* gets the canned outcome stub.ins and every Q&A request stub.qna, and    *)
(* stub.calls counts the requests received since the result in ref was     *)
(* taken.  In ref the whole call is kept, arguments included.              *)
(***************************************************************************)
\* requests the stub counts
MaxCalls == 2

\* transcripts and questions of the Q&A calls made against the stub
AskTexts == {"", " ", "a"}

\* canned outcomes of the stub's Q&A endpoint
StubQnaOutcomes ==
    {Response(200, JsonDict("answer" :> "Maria will share the wireframes.")),
     Raised(Exc("ConnectionError", "Connection refused"))}

InitStub ==
    /\ insightsUrl \in InsightsUrls
    /\ qnaUrl = DeployedQnaUrl
    /\ cur = Idle
    /\ ref = Idle
    /\ stub \in [ins : InsightsOutcomes, qna : StubQnaOutcomes, calls : {0}]
    /\ peer = Idle
    /\ svc = SvcIdle

StubInsightsCall(t) ==
    /\ cur.pc = "idle"
    /\ LET c == InsightsStart(insightsUrl, t)
       IN  /\ stub.calls + c.net <= MaxCalls
           /\ cur' = c
           /\ stub' = [stub EXCEPT !.calls = @ + c.net]
    /\ UNCHANGED <<insightsUrl, qnaUrl, ref, peer, svc>>

StubInsightsResume ==
    /\ cur.pc = "waiting"
    /\ cur.fn = "insights"
    /\ cur' = InsightsEnd(cur, stub.ins)
    /\ UNCHANGED <<insightsUrl, qnaUrl, ref, others>>

StubQnaCall(t, q) ==
    /\ cur.pc = "idle"
    /\ LET c == QnaStart(qnaUrl, t, q)
       IN  /\ stub.calls + c.net <= MaxCalls
           /\ cur' = c
           /\ stub' = [stub EXCEPT !.calls = @ + c.net]
    /\ UNCHANGED <<insightsUrl, qnaUrl, ref, peer, svc>>

StubQnaResume ==
    /\ cur.pc = "waiting"
    /\ cur.fn = "qna"
    /\ cur' = QnaEnd(cur, stub.qna)
    /\ UNCHANGED <<insightsUrl, qnaUrl, ref, others>>

\* the test takes the result of an insights call as its reference and
\* resets the stub's counter
Keep ==
    /\ InsightsDone(cur)
    /\ ref' = cur
    /\ cur' = Idle
    /\ stub' = [stub EXCEPT !.calls = 0]
    /\ UNCHANGED <<insightsUrl, qnaUrl, peer, svc>>

NextStub ==
    \/ \E t \in UserTexts : StubInsightsCall(t)
    \/ StubInsightsResume
    \/ \E t \in AskTexts, q \in AskTexts : StubQnaCall(t, q)
    \/ StubQnaResume
    \/ Keep
    \/ Forget

SpecStub == InitStub /\ [][NextStub]_vars

(***************************************************************************)
(* Two calls at once: the UI runs the handlers of its two buttons in       *)
(* separate threads, so an insights call (cur) and a Q&A call (peer) can   *)
(* be in progress together, their steps interleaved in any order.  The     *)
(* endpoint answers a request from its own payload, or the request fails.  *)
(***************************************************************************)
\* what the insights endpoint can do with the request req
InsightsReplies(req) ==
    {Response(200, JsonDict(("summary" :> DictGet(req.json, "transcript", ""))
                                @@ ("sentiment" :> "Positive"))),
     Response(200, JsonDict("error" :> DictGet(req.json, "transcript", ""))),
     Raised(Exc("Timeout", "Read timed out. (read timeout=300)")),
     Response(500, JsonInvalid)}

\* what the Q&A endpoint can do with the request req
QnaReplies(req) ==
    {Response(200, JsonDict("answer" :> (DictGet(req.json, "question", "") \o "?"
                                           \o DictGet(req.json, "transcript", "")))),
     Response(200, JsonDict("error" :> DictGet(req.json, "question", ""))),
     Raised(Exc("ConnectionError", "Connection refused")),
     Response(400, JsonDict("error" :> "Invalid transcript"))}

InitConc ==
    /\ insightsUrl \in InsightsUrls
    /\ qnaUrl \in QnaUrls
    /\ cur = Idle
    /\ ref = Idle
    /\ stub = AnyNetwork
    /\ peer = Idle
    /\ svc = SvcIdle

\* the user presses "Ask Question" while cur goes its way
PeerQnaCall(t, q) ==
    /\ peer.pc = "idle"
    /\ peer' = QnaStart(qnaUrl, t, q)
    /\ UNCHANGED <<insightsUrl, qnaUrl, cur, ref, stub, svc>>

PeerQnaResume(o) ==
    /\ peer.pc = "waiting"
    /\ peer' = QnaEnd(peer, o)
    /\ UNCHANGED <<insightsUrl, qnaUrl, cur, ref, stub, svc>>

PeerForget ==
    /\ peer.pc = "done"
    /\ peer' = Idle
    /\ UNCHANGED <<insightsUrl, qnaUrl, cur, ref, stub, svc>>

NextConc ==
    \/ \E t \in UserTexts : InsightsCall(t)
    \/ \E o \in InsightsReplies(cur.request) : InsightsResume(o)
    \/ Forget
    \/ \E t \in UserTexts, q \in UserTexts : PeerQnaCall(t, q)
    \/ \E o \in QnaReplies(peer.request) : PeerQnaResume(o)
    \/ PeerForget

SpecConc == InitConc /\ [][NextConc]_vars

(***************************************************************************)
(* The endpoints of the two services                                       *)
(***************************************************************************)
\* what .remote(...) gave the endpoint: kind "raises" (exc raised by the
\* call), "awaitable" (resolving to value, or raising exc when awaited),
\* "dict" (value) or "other" (neither awaitable nor dict)
RemoteResult(kind, value, exc) == [kind |-> kind, value |-> value, exc |-> exc]

\* the remote-call failures the platform can produce, by mode
RemoteFailures ==
    [raises |-> RemoteResult("raises", JsonNone, Exc("RuntimeError", "")),
     await_raises |-> RemoteResult("awaitable", JsonNone,
                                   Exc("RuntimeError", "Failed to load LLM model")),
     other |-> RemoteResult("other", JsonNone, NoExc),
     awaitable_nondict |-> RemoteResult("awaitable", JsonNull, NoExc)]

\* the except clause of an endpoint answering with the default status
EndpointExcept_NoStatus(e) ==
    Response(200, JsonDict("error" :> ("Endpoint error: " \o e.text)))

\* the except clause of get_insights and ask_question
EndpointExcept(e) ==
    Response(500, JsonDict("error" :> ("Endpoint error: " \o e.text)))

NonDictMsg(app) == IF app = "insights" THEN "Non-dict insights" ELSE "Non-dict Q&A response"

\* EndpointTry without the awaitable branch: only a dict is taken
EndpointTry_NoAwait(app, rr) ==
    IF rr.kind = "raises" THEN [response |-> NoOutcome, exc |-> rr.exc]
    ELSE IF rr.kind # "dict"
    THEN [response |-> NoOutcome,
          exc |-> Exc("ValueError", "Unexpected type from remote: <class 'coroutine'>")]
    ELSE [response |-> Response(200, rr.value), exc |-> NoExc]

\* EndpointTry answering a dict that carries a non-empty error with 500
EndpointTry_ErrorIs500(app, rr) ==
    IF rr.kind = "raises" THEN [response |-> NoOutcome, exc |-> rr.exc]
    ELSE IF rr.kind = "awaitable" /\ rr.exc # NoExc
    THEN [response |-> NoOutcome, exc |-> rr.exc]
    ELSE IF rr.kind \notin {"awaitable", "dict"}
    THEN [response |-> NoOutcome,
          exc |-> Exc("ValueError", "Unexpected type from remote: <class 'NoneType'>")]
    ELSE IF rr.value.kind = "dict" /\ DictGet(rr.value.d, "error", "") = ""
    THEN [response |-> Response(200, rr.value), exc |-> NoExc]
    ELSE IF rr.value.kind = "dict"
    THEN [response |-> Response(500, rr.value), exc |-> NoExc]
    ELSE [response |-> Response(500, JsonDict("error" :> NonDictMsg(app))), exc |-> NoExc]

\* the try statement of get_insights and ask_question from the return of
\* .remote on: the response returned, or the exception raised
EndpointTry(app, rr) ==
    IF rr.kind = "raises" THEN [response |-> NoOutcome, exc |-> rr.exc]
    ELSE IF rr.kind = "awaitable" /\ rr.exc # NoExc
    THEN [response |-> NoOutcome, exc |-> rr.exc]
    ELSE IF rr.kind \notin {"awaitable", "dict"}
    THEN [response |-> NoOutcome,
          exc |-> Exc("ValueError", "Unexpected type from remote: <class 'NoneType'>")]
    ELSE IF rr.value.kind = "dict"
    THEN [response |-> Response(200, rr.value), exc |-> NoExc]
    ELSE [response |-> Response(500, JsonDict("error" :> NonDictMsg(app))), exc |-> NoExc]

\* the service once the endpoint has gone through its try statement: it
\* has answered, from the try body or the except clause, or the exception
\* has left the endpoint
Answered(s, mode, rr) ==
    LET r == EndpointTry(s.app, rr)
    IN  IF r.exc = NoExc
        THEN [s EXCEPT !.pc = "done", !.mode = mode, !.response = r.response]
        ELSE IF CaughtByExceptException(r.exc.cls)
        THEN [s EXCEPT !.pc = "done", !.mode = mode, !.response = EndpointExcept(r.exc)]
        ELSE [s EXCEPT !.pc = "done", !.mode = mode, !.raised = TRUE]

\* the validation of the request at the head of an endpoint
InvalidRequest(app, tv, qv) ==
    \/ InvalidText(RequestGet(tv))
    \/ app = "qna" /\ InvalidText(RequestGet(qv))

InvalidRequestMsg(app) ==
    IF app = "insights" THEN "Invalid transcript" ELSE "Invalid transcript/question"

InitService ==
    /\ insightsUrl = DeployedInsightsUrl
    /\ qnaUrl = DeployedQnaUrl
    /\ cur = Idle
    /\ ref = Idle
    /\ stub = AnyNetwork
    /\ peer = Idle
    /\ svc = SvcIdle

\* a request reaches get_insights or ask_question, which validates it
Receive(app, tv, qv) ==
    /\ svc.pc = "idle"
    /\ svc' = IF InvalidRequest(app, tv, qv)
              THEN [SvcIdle EXCEPT !.app = app, !.pc = "done", !.transcript = tv,
                        !.question = qv,
                        !.response = Response(400, JsonDict("error" :> InvalidRequestMsg(app)))]
              ELSE [SvcIdle EXCEPT !.app = app, !.pc = "calling", !.transcript = tv,
                        !.question = qv]
    /\ UNCHANGED <<insightsUrl, qnaUrl, cur, ref, stub, peer>>

\* .remote fails in the platform: the processor's dict never arrives
RemoteFails(mode) ==
    /\ svc.pc = "calling"
    /\ svc' = Answered([svc EXCEPT !.remote = @ + 1], mode, RemoteFailures[mode])
    /\ UNCHANGED <<insightsUrl, qnaUrl, cur, ref, stub, peer>>

\* .remote starts the processor method, which tests its text_generator
RemoteRuns(mode, loaded) ==
    /\ svc.pc = "calling"
    /\ svc' = IF loaded
              THEN [svc EXCEPT !.pc = "processing", !.remote = @ + 1, !.mode = mode,
                        !.loaded = TRUE,
                        !.results = IF svc.app = "insights" THEN InsightsResultsInit
                                    ELSE EmptyDict]
              ELSE [svc EXCEPT !.pc = "returned", !.remote = @ + 1, !.mode = mode,
                        !.result = IF svc.app = "insights" THEN InsightsNotLoaded
                                   ELSE QnaNotLoaded]
    /\ UNCHANGED <<insightsUrl, qnaUrl, cur, ref, stub, peer>>

\* the next generation step of the processor, the pipeline doing g; after
\* the last one the method returns
Generate(g) ==
    /\ svc.pc = "processing"
    /\ svc' = IF svc.app = "qna"
              THEN [svc EXCEPT !.pc = "returned", !.gens = Append(@, g),
                        !.result = QnaAnswer(g)]
              ELSE LET k == Len(svc.gens) + 1
                       st == InsightsStep(svc.results, svc.errors, k, g)
                   IN  IF k < Len(StepKeys)
                       THEN [svc EXCEPT !.gens = Append(@, g), !.results = st.results,
                                 !.errors = st.errors]
                       ELSE [svc EXCEPT !.pc = "returned", !.gens = Append(@, g),
                                 !.results = st.results, !.errors = st.errors,
                                 !.result = InsightsReturn(st.results, st.errors)]
    /\ UNCHANGED <<insightsUrl, qnaUrl, cur, ref, stub, peer>>

\* the endpoint gets the processor's dict, at once or by awaiting, and answers
Respond ==
    /\ svc.pc = "returned"
    /\ svc' = Answered(svc, svc.mode, RemoteResult(svc.mode, JsonDict(svc.result), NoExc))
    /\ UNCHANGED <<insightsUrl, qnaUrl, cur, ref, stub, peer>>

\* the response is sent; the service takes the next request
Sent ==
    /\ svc.pc = "done"
    /\ svc' = SvcIdle
    /\ UNCHANGED <<insightsUrl, qnaUrl, cur, ref, stub, peer>>

NextService ==
    \/ \E tv \in RequestValues : Receive("insights", tv, PyAbsent)
    \/ \E tv \in RequestValues, qv \in RequestValues : Receive("qna", tv, qv)
    \/ \E mode \in DOMAIN RemoteFailures : RemoteFails(mode)
    \/ \E mode \in {"dict", "awaitable"}, loaded \in BOOLEAN : RemoteRuns(mode, loaded)
    \/ \E g \in PipelineOutcomes : Generate(g)
    \/ Respond
    \/ Sent

SpecService == InitService /\ [][NextService]_vars

(***************************************************************************)
(* End to end: the request of an insights call (cur) goes to the insights  *)
(* service (svc), and the response of the service is what requests.post    *)
(* returns to the call.                                                    *)
(***************************************************************************)
\* the request posted by the client reaches get_insights
Deliver ==
    /\ cur.pc = "waiting"
    /\ cur.fn = "insights"
    /\ svc.pc = "idle"
    /\ Receive("insights",
               IF HasKey(cur.request.json, "transcript")
               THEN PyStr(cur.request.json["transcript"]) ELSE PyAbsent,
               PyAbsent)

\* the response of the endpoint reaches the client, which runs to its return
Answer ==
    /\ cur.pc = "waiting"
    /\ svc.pc = "done"
    /\ ~svc.raised
    /\ cur' = InsightsEnd(cur, svc.response)
    /\ UNCHANGED <<insightsUrl, qnaUrl, ref, others>>

\* the result goes to the output widgets; client and service are free again
Shown ==
    /\ cur.pc = "done"
    /\ cur' = Idle
    /\ svc' = SvcIdle
    /\ UNCHANGED <<insightsUrl, qnaUrl, ref, stub, peer>>

NextEndToEnd ==
    \/ \E t \in UserTexts : InsightsCall(t)
    \/ Deliver
    \/ \E mode \in DOMAIN RemoteFailures : RemoteFails(mode)
    \/ \E mode \in {"dict", "awaitable"}, loaded \in BOOLEAN : RemoteRuns(mode, loaded)
    \/ \E g \in PipelineOutcomes : Generate(g)
    \/ Respond
    \/ Answer
    \/ Shown

SpecEndToEnd == InitService /\ [][NextEndToEnd]_vars

(***************************************************************************)
(* The endpoints as functions of what .remote gives them, the endpoint of  *)
(* src/modal_logic.py (app "legacy") included.  In ref the request         *)
(* answered before is kept, to compare the two responses.                  *)
(***************************************************************************)
\* the body of an error response of process_meeting_insights_endpoint
LegacyErrorBody(msg) ==
    JsonDict([k \in {"summary", "decisions", "actions", "error"} |->
                 IF k = "error" THEN msg ELSE ""])

\* the try statement of process_meeting_insights_endpoint from the return
\* of .remote on
LegacyEndpointTry(rr) ==
    IF rr.kind = "raises" THEN [response |-> NoOutcome, exc |-> rr.exc]
    ELSE IF rr.kind = "awaitable" /\ rr.exc # NoExc
    THEN [response |-> NoOutcome, exc |-> rr.exc]
    ELSE IF rr.kind \notin {"awaitable", "dict"}
    THEN [response |-> Response(500, LegacyErrorBody(
              "Internal error: .remote() call returned an unexpected type: <class 'NoneType'>")),
          exc |-> NoExc]
    ELSE IF rr.value.kind = "dict"
    THEN [response |-> Response(200, rr.value), exc |-> NoExc]
    ELSE [response |-> Response(500, LegacyErrorBody(
              "Internal error: AI service processing resulted in an unexpected data type: <class 'NoneType'>")),
          exc |-> NoExc]

\* its two except clauses, TypeError first
LegacyExcept(e) ==
    IF e.cls = "TypeError"
    THEN Response(500, LegacyErrorBody("Internal TypeError in AI processing: " \o e.text
             \o ". This suggests an issue with async/await handling."))
    ELSE Response(500, LegacyErrorBody("Critical unexpected error in AI endpoint: "
             \o e.cls \o " - " \o e.text \o "."))

\* the legacy service once its endpoint has gone through its try statement
LegacyAnswered(s, mode, rr) ==
    LET r == LegacyEndpointTry(rr)
    IN  IF r.exc = NoExc
        THEN [s EXCEPT !.pc = "done", !.mode = mode, !.response = r.response]
        ELSE IF CaughtByExceptException(r.exc.cls)
        THEN [s EXCEPT !.pc = "done", !.mode = mode, !.response = LegacyExcept(r.exc)]
        ELSE [s EXCEPT !.pc = "done", !.mode = mode, !.raised = TRUE]

\* the return of the legacy processor whose text_generator is not set
LegacyNotLoaded ==
    [k \in {"summary", "decisions", "actions", "error"} |->
        CASE k = "summary" ->
               "Error: AI Model component (text_generator) failed to load or was not available."
          [] k = "error" -> "LLM text_generator not initialized or unavailable."
          [] OTHER -> ""]

\* dicts the processor of each service returns: model not loaded, every
\* step succeeding, a step failing
ProcessorDicts(app) ==
    CASE app = "insights" ->
           {InsightsNotLoaded,
            [InsightsResultsInit EXCEPT !["summary"] = "The team agreed on the plan."],
            [InsightsResultsInit EXCEPT !["summary"] = "Error generating summary.",
                                        !["error"] = "Summary: CUDA out of memory"]}
      [] app = "qna" -> {QnaNotLoaded} \cup {QnaAnswer(g) : g \in PipelineOutcomes}
      [] app = "legacy" ->
           {LegacyNotLoaded,
            [LegacyNotLoaded EXCEPT !["summary"] = "The team agreed on the plan.",
                                    !["error"] = ""],
            [LegacyNotLoaded EXCEPT !["summary"] = "Error: Could not generate summary from AI.",
                                    !["error"] =
                "Summary: Error generating summary: RuntimeError - CUDA out of memory"]}

Services == {"insights", "qna", "legacy"}

InitRemote ==
    /\ insightsUrl = DeployedInsightsUrl
    /\ qnaUrl = DeployedQnaUrl
    /\ cur = Idle
    /\ ref = SvcIdle
    /\ stub = AnyNetwork
    /\ peer = Idle
    /\ svc = SvcIdle

\* the endpoint of app is given rr by .remote and answers
RemoteGives(app, mode, rr) ==
    /\ svc.pc = "idle"
    /\ LET s == [SvcIdle EXCEPT !.app = app, !.remote = 1,
                     !.result = IF rr.value.kind = "dict" THEN rr.value.d ELSE EmptyDict]
       IN  svc' = IF app = "legacy" THEN LegacyAnswered(s, mode, rr)
                  ELSE Answered(s, mode, rr)
    /\ UNCHANGED <<insightsUrl, qnaUrl, cur, ref, stub, peer>>

\* the request answered is kept, the service takes the next one
KeepAnswered ==
    /\ svc.pc = "done"
    /\ ref' = svc
    /\ svc' = SvcIdle
    /\ UNCHANGED <<insightsUrl, qnaUrl, cur, stub, peer>>

NextRemote ==
    \/ \E app \in Services, mode \in {"dict", "awaitable"} :
           \E d \in ProcessorDicts(app) :
               RemoteGives(app, mode, RemoteResult(mode, JsonDict(d), NoExc))
    \/ \E app \in Services, mode \in DOMAIN RemoteFailures :
           RemoteGives(app, mode, RemoteFailures[mode])
    \/ KeepAnswered
    \/ Sent

SpecRemote == InitRemote /\ [][NextRemote]_vars

(***************************************************************************)
(* Properties of the insights client                                       *)
(***************************************************************************)
\* a well-formed, non-placeholder HTTPS address
WellConfigured(url, placeholder) ==
    url # placeholder /\ url # "" /\ StartsWith(url, "https://")

\* the call got a 200 response whose body is a JSON object
GotObject(c) == c.outcome.status = 200 /\ c.outcome.body.kind = "dict"

\* that object carries a non-empty error
GotError(c) ==
    GotObject(c) /\ "error" \in DOMAIN c.outcome.body.d /\ c.outcome.body.d["error"] # ""

\* C1: whatever the outcome, get_all_insights_from_modal returns a tuple of
\* exactly four values and never raises to the caller.
C1_AlwaysFourValues ==
    InsightsDone(cur) => ~cur.raised /\ Len(cur.out) = 4

C3_FiveValuesReturned ==
    ( /\ InsightsDone(cur)
      /\ GotObject(cur)
      /\ DOMAIN cur.outcome.body.d = {"summary", "decisions", "actions", "sentiment", "error"} )
    => LET d == cur.outcome.body.d
       IN  cur.out = <<d["summary"], d["decisions"], d["actions"], d["sentiment"], d["error"]>>

\* C3 amended: a 200 response holding all five fields, its error empty, is
\* returned as its summary, decisions, actions and sentiment, unmodified and
\* in that order; the error value has no slot in the result.
C3_FourValuesReturned ==
    ( /\ InsightsDone(cur)
      /\ GotObject(cur)
      /\ DOMAIN cur.outcome.body.d = {"summary", "decisions", "actions", "sentiment", "error"}
      /\ cur.outcome.body.d["error"] = "" )
    => LET d == cur.outcome.body.d
       IN  /\ ~cur.raised
           /\ cur.out = <<d["summary"], d["decisions"], d["actions"], d["sentiment"]>>

C3_Witness ==
    /\ InsightsDone(cur)
    /\ GotObject(cur)
    /\ DOMAIN cur.outcome.body.d = {"summary", "decisions", "actions", "sentiment", "error"}
    /\ cur.outcome.body.d["error"] = ""
    /\ cur.transcript = " a"
    /\ cur.out[2] = "- Ship on Monday"

\* the placeholder of the i-th slot
C4_Placeholder(i) ==
    <<"Summary not provided.", "Decisions not provided.",
      "Action items not provided.", "Sentiment not provided.">>[i]

\* C4: with no non-empty error in the 200 response, every absent field is
\* replaced by its own placeholder and every present field is returned
\* unchanged, for every subset of missing fields, and the result is not an
\* error outcome.
C4_PartialResponse ==
    (InsightsDone(cur) /\ GotObject(cur) /\ ~GotError(cur))
    => LET d == cur.outcome.body.d
       IN  /\ ~cur.raised
           /\ cur.site = "ok"
           /\ cur.exc = NoExc
           /\ Len(cur.out) = 4
           /\ \A i \in 1..4 :
                 cur.out[i] = IF InsightKeys[i] \in DOMAIN d
                              THEN d[InsightKeys[i]]
                              ELSE C4_Placeholder(i)

\* sentiment and summary are missing, decisions and actions are present
C4_Witness ==
    /\ InsightsDone(cur)
    /\ GotObject(cur)
    /\ ~GotError(cur)
    /\ DOMAIN cur.outcome.body.d = {"decisions", "actions"}
    /\ cur.out[4] = "Sentiment not provided."
    /\ cur.out[2] = "- Ship on Monday"

\* C5 as stated: a non-empty error e in the 200 response is returned as
\* "AI Service Error: " followed by e, the three other slots empty.
C5_ServiceErrorAsStated ==
    (InsightsDone(cur) /\ GotError(cur))
    => cur.out = <<"AI Service Error: " \o cur.outcome.body.d["error"], "", "", "">>

\* C5 amended: a non-empty error e in the 200 response, whatever else the
\* response holds, is returned as "AI Service Error (Insights): " followed
\* by e, the three other slots empty.
C5_ServiceError ==
    (InsightsDone(cur) /\ GotError(cur))
    => /\ ~cur.raised
       /\ cur.out = <<"AI Service Error (Insights): " \o cur.outcome.body.d["error"],
                      "", "", "">>

\* an error came with all four insight fields present
C5_Witness ==
    /\ InsightsDone(cur)
    /\ GotError(cur)
    /\ DOMAIN cur.outcome.body.d = {"summary", "decisions", "actions", "sentiment", "error"}
    /\ cur.site = "service_error"

(***************************************************************************)
(* Properties of the configuration test and of the failure reports         *)
(***************************************************************************)
\* the address is the placeholder token, is empty, or lacks the secure scheme
C6_BadUrl(url, placeholder) ==
    url = placeholder \/ url = "" \/ ~StartsWith(url, "https://")

\* C6: with an endpoint URL that is the placeholder, empty or not https, each
\* client returns its configuration-error message without issuing a request,
\* and that message differs from every message the same function returns
\* for a failure met at run time in its network call.
C6_ConfigCheckedFirst ==
    /\ (cur.fn = "insights" /\ C6_BadUrl(insightsUrl, InsightsUrlPlaceholder))
       => /\ cur.pc = "done"
          /\ cur.net = 0
          /\ ~cur.raised
          /\ cur.out # <<>>
          /\ cur.out[1] = "Insights Modal endpoint URL not correctly configured in 'app.py'."
          /\ (InsightsDone(ref) /\ ref.site = "except") => ref.out[1] # cur.out[1]
    /\ (cur.fn = "qna" /\ C6_BadUrl(qnaUrl, QnaUrlPlaceholder))
       => /\ cur.pc = "done"
          /\ cur.net = 0
          /\ ~cur.raised
          /\ cur.out # <<>>
          /\ cur.out[1] = "Q&A Modal endpoint URL not correctly configured in 'app.py'."
          /\ (QnaDone(ref) /\ ref.site = "except") => ref.out[1] # cur.out[1]

\* a question on a transcript is stopped by an http:// address, after a
\* connection failure was reported under an earlier configuration
C6_Witness ==
    /\ QnaDone(cur)
    /\ qnaUrl = "http://qna.modal.run"
    /\ cur.transcript = "a"
    /\ cur.question = "a"
    /\ cur.site = "config"
    /\ QnaDone(ref)
    /\ ref.exc.cls = "ConnectionError"

\* C7 as stated: on a timeout the first slot holds the fixed timeout message
\* (the same for every timeout) and the other slots the "Could not retrieve"
\* placeholders, nothing being raised.
C7_FixedTimeoutMessage ==
    (InsightsDone(cur) /\ cur.outcome.exc.cls = "Timeout")
    => /\ ~cur.raised
       /\ Len(cur.out) = 4
       /\ cur.out[2] = "Error: Could not retrieve decisions."
       /\ cur.out[3] = "Error: Could not retrieve action items."
       /\ cur.out[4] = "Error: Could not retrieve sentiment."
       /\ (InsightsDone(ref) /\ ref.exc.cls = "Timeout") => ref.out[1] = cur.out[1]

\* C7 amended: on a timeout the first slot holds "Error processing
\* insights: " followed by the text of the timeout exception, and the other
\* slots the "Could not retrieve" placeholders, nothing being raised.
C7_TimeoutReported ==
    (InsightsDone(cur) /\ cur.outcome.exc.cls = "Timeout")
    => /\ ~cur.raised
       /\ cur.out = <<"Error processing insights: " \o cur.outcome.exc.text,
                      "Error: Could not retrieve decisions.",
                      "Error: Could not retrieve action items.",
                      "Error: Could not retrieve sentiment.">>

\* two timeouts with different texts were reported
C7_Witness ==
    /\ InsightsDone(cur)
    /\ cur.outcome.exc = Exc("Timeout", "Read timed out. (read timeout=300)")
    /\ InsightsDone(ref)
    /\ ref.exc = Exc("Timeout", "")

\* C8: on a 4xx or 5xx status, whatever the body, the first slot holds the
\* message of the HTTP error with the status code in it, the body is never
\* parsed as JSON, and four values are returned without raising.
C8_HttpErrorStatus ==
    (InsightsDone(cur) /\ cur.outcome.status >= 400)
    => /\ ~cur.raised
       /\ ~cur.parsed
       /\ cur.exc.cls = "HTTPError"
       /\ Len(cur.out) = 4
       /\ cur.outcome.status = 400 => Contains(cur.out[1], "400")
       /\ cur.outcome.status = 500 => Contains(cur.out[1], "500")

\* a 500 with a body that is not JSON
C8_Witness ==
    /\ InsightsDone(cur)
    /\ cur.outcome.status = 500
    /\ cur.outcome.body.kind = "invalid"
    /\ cur.site = "except"

\* the failure kind of the exception the except clause caught
FailureKind(c) ==
    CASE c.exc.cls = "Timeout" -> "timeout"
      [] c.exc.cls = "HTTPError" -> "http"
      [] c.exc.cls \in {"ConnectionError", "JSONDecodeError"} -> "transport_or_json"
      [] OTHER -> "other"

\* C9 as stated: two failures of different kinds never give the same
\* first-slot message.
C9_KindsDistinct ==
    ( /\ InsightsDone(cur) /\ cur.site = "except"
      /\ InsightsDone(ref) /\ ref.site = "except"
      /\ FailureKind(cur) # FailureKind(ref) )
    => cur.out[1] # ref.out[1]

\* C9 amended: the four failure kinds share one message, "Error processing
\* insights: " followed by the text of the exception; two failures give the
\* same first-slot message exactly when their exceptions have the same text,
\* whatever their kinds.
C9_OneTemplate ==
    ( /\ InsightsDone(cur) /\ cur.site = "except"
      /\ InsightsDone(ref) /\ ref.site = "except" )
    => /\ StartsWith(cur.out[1], "Error processing insights: ")
       /\ (cur.out[1] = ref.out[1]) <=> (cur.exc.text = ref.exc.text)

\* a timeout and a failure of another kind gave the same message
C9_Witness ==
    /\ InsightsDone(cur) /\ cur.site = "except"
    /\ InsightsDone(ref) /\ ref.site = "except"
    /\ FailureKind(cur) = "timeout"
    /\ FailureKind(ref) = "other"
    /\ cur.out[1] = ref.out[1]

\* the call got a 200 response whose body is not JSON, or is null
GotFormatError(c) ==
    c.outcome.status = 200 /\ c.outcome.body.kind \in {"invalid", "null"}

C11_PreconditionOrder ==
    (cur.fn = "qna" /\ cur.pc # "idle") =>
        /\ C6_BadUrl(qnaUrl, QnaUrlPlaceholder) =>
               cur.pc = "done" /\ cur.net = 0 /\ cur.out = <<QnaConfigMsg>>
        /\ (~C6_BadUrl(qnaUrl, QnaUrlPlaceholder) /\ Strip(cur.transcript) = "") =>
               cur.pc = "done" /\ cur.net = 0 /\ cur.out = <<QnaBlankTranscriptMsg>>
        /\ (/\ ~C6_BadUrl(qnaUrl, QnaUrlPlaceholder)
            /\ Strip(cur.transcript) # ""
            /\ Strip(cur.question) = "") =>
               cur.pc = "done" /\ cur.net = 0 /\ cur.out = <<QnaBlankQuestionMsg>>
        /\ cur.net > 0 =>
               /\ ~C6_BadUrl(qnaUrl, QnaUrlPlaceholder)
               /\ Strip(cur.transcript) # ""
               /\ Strip(cur.question) # ""
        /\ QnaConfigMsg # QnaBlankTranscriptMsg
        /\ QnaConfigMsg # QnaBlankQuestionMsg
        /\ QnaBlankTranscriptMsg # QnaBlankQuestionMsg

\* a call with a good URL and both texts blank: the transcript decides
C11_Witness ==
    /\ QnaDone(cur)
    /\ ~C6_BadUrl(qnaUrl, QnaUrlPlaceholder)
    /\ Strip(cur.transcript) = ""
    /\ Strip(cur.question) = ""
    /\ cur.out = <<QnaBlankTranscriptMsg>>

C13_ErrorBeforeAnswer ==
    (QnaDone(cur) /\ GotObject(cur)) =>
        LET results == cur.outcome.body.d
        IN  /\ GotError(cur) =>
                   cur.out = <<"Q&A Service Error: " \o results["error"]>>
            /\ (~GotError(cur) /\ "answer" \in DOMAIN results) =>
                   cur.out = <<results["answer"]>>
            /\ cur.site = "ok" => ~GotError(cur)

\* a response with both a non-empty error and an answer that differs from
\* what is returned
C13_Witness ==
    /\ QnaDone(cur)
    /\ GotError(cur)
    /\ "answer" \in DOMAIN cur.outcome.body.d
    /\ cur.outcome.body.d["answer"] # ""
    /\ cur.out[1] # cur.outcome.body.d["answer"]

\* the parsed response is an object with no non-empty error and no answer
C14_NoAnswer(c) ==
    QnaDone(c) /\ GotObject(c) /\ ~GotError(c) /\ "answer" \notin DOMAIN c.outcome.body.d

\* C14 as stated: such a response makes ask_question_on_transcript return
\* the placeholder "Answer not provided."
C14_PlaceholderAsStated ==
    C14_NoAnswer(cur) => cur.out = <<"Answer not provided.">>

\* C14: when the parsed Q&A response has no non-empty error and no answer
\* field, ask_question_on_transcript returns the placeholder
\* "Answer not provided by AI service."
C14_Placeholder ==
    C14_NoAnswer(cur) => cur.out = <<"Answer not provided by AI service.">>

\* a response that is an empty object, or one holding an empty error only
C14_Witness ==
    /\ C14_NoAnswer(cur)
    /\ "error" \in DOMAIN cur.outcome.body.d
    /\ cur.site = "ok"

(***************************************************************************)
(* Properties of both clients                                              *)
(***************************************************************************)
\* the preconditions of the call all pass
C15_PreconditionsPass(c) ==
    IF c.fn = "insights"
    THEN WellConfigured(insightsUrl, InsightsUrlPlaceholder) /\ Strip(c.transcript) # ""
    ELSE /\ WellConfigured(qnaUrl, QnaUrlPlaceholder)
         /\ Strip(c.transcript) # ""
         /\ Strip(c.question) # ""

\* C15: a user action issues exactly one blocking POST when all the
\* preconditions of its client pass and none otherwise; after a timeout, an
\* HTTP error status, a transport failure or a format error the client
\* returns without issuing the request again.
C15_ExactlyOnePost ==
    cur.pc # "idle" =>
        /\ cur.net = (IF C15_PreconditionsPass(cur) THEN 1 ELSE 0)
        /\ cur.pc = "waiting" => cur.net = 1 /\ cur.out = <<>>
        /\ cur.net = 0 => cur.pc = "done" /\ cur.outcome = NoOutcome

\* an insights call that timed out, and returned
C15_Witness ==
    /\ InsightsDone(cur)
    /\ cur.outcome.exc.cls = "Timeout"
    /\ cur.site = "except"
    /\ cur.net = 1

C17_InsightsAlone(t, o) ==
    LET c == InsightsStart(insightsUrl, t)
    IN  IF c.pc = "done" \/ o = NoOutcome THEN c ELSE InsightsEnd(c, o)

\* the Q&A call with transcript t, question q and outcome o, run on its own
C17_QnaAlone(t, q, o) ==
    LET c == QnaStart(qnaUrl, t, q)
    IN  IF c.pc = "done" \/ o = NoOutcome THEN c ELSE QnaEnd(c, o)

ProcessorReturned(s) == s.pc \in {"returned", "done"} /\ s.mode \in {"dict", "awaitable"}

\* the model was not loaded, or a generation step raised
ProcessorFailed(s) ==
    ~s.loaded \/ \E i \in 1..Len(s.gens) : s.gens[i].kind # "text"

\* C18: in the dict an insights or Q&A processor returns, error is a
\* non-empty string only when the model was not loaded or at least one
\* generation step raised; when every step succeeds error is "".
C18_ErrorOnlyOnFailure ==
    ProcessorReturned(svc) =>
        /\ ("error" \in DOMAIN svc.result /\ svc.result["error"] # "") =>
               ProcessorFailed(svc)
        /\ ~ProcessorFailed(svc) =>
               "error" \in DOMAIN svc.result /\ svc.result["error"] = ""

\* the insights processor has run its four steps, none of which raised
C18_Witness ==
    /\ ProcessorReturned(svc)
    /\ svc.app = "insights"
    /\ Len(svc.gens) = 4
    /\ ~ProcessorFailed(svc)
    /\ svc.result["summary"] = "The team agreed on the plan."
    /\ svc.result["error"] = ""

\* the request lacks a transcript (or, for Q&A, a question) that is a
\* string and not blank
C19_Malformed(s) ==
    \/ s.transcript.kind # "str"
    \/ Strip(s.transcript.s) = ""
    \/ s.app = "qna" /\ (s.question.kind # "str" \/ Strip(s.question.s) = "")

\* C19: a malformed request to either endpoint is answered with status 400
\* and a JSON body carrying a non-empty error, and no remote processor call
\* is made for it.
C19_MalformedRejected ==
    (svc.pc # "idle" /\ C19_Malformed(svc)) =>
        /\ svc.pc = "done"
        /\ svc.remote = 0
        /\ svc.response.status = 400
        /\ svc.response.body.kind = "dict"
        /\ "error" \in DOMAIN svc.response.body.d
        /\ svc.response.body.d["error"] # ""

\* a Q&A request whose transcript is good and whose question is a number
C19_Witness ==
    /\ svc.app = "qna"
    /\ svc.pc = "done"
    /\ svc.transcript = PyStr("a")
    /\ svc.question = PyInt("5")
    /\ svc.response.status = 400

\* an internal failure in the sense of C20: the remote call failed in the
\* platform, or the processor reported a failure
C20_InternalFailure(s) ==
    s.mode \in DOMAIN RemoteFailures \/ (ProcessorReturned(s) /\ ProcessorFailed(s))

\* the response is a JSON object with a non-empty error
C20_ErrorBody(s) ==
    /\ s.response.body.kind = "dict"
    /\ "error" \in DOMAIN s.response.body.d
    /\ s.response.body.d["error"] # ""

\* C20 as stated: every internal failure, those the processor reports
\* included, is answered with status 500 and a non-empty error, no
\* exception leaves the endpoint, and status 200 means success.
C20_EveryFailureIs500 ==
    (svc.pc = "done" /\ svc.remote > 0) =>
        /\ ~svc.raised
        /\ C20_InternalFailure(svc) => svc.response.status = 500 /\ C20_ErrorBody(svc)
        /\ svc.response.status = 200 => ~C20_InternalFailure(svc)

\* C20: a failure of the remote call (it raises, it gives something
\* neither awaitable nor dict, or an awaitable that raises or resolves to a
\* non-dict) is answered with status 500 and a non-empty error, and no
\* exception leaves the endpoint; a failure inside the processor (model
\* not loaded, a generation step raising) is answered with status 200 and
\* the processor's dict, whose error is non-empty; status 200 is returned
\* only with a dict the processor returned.
C20_EndpointFailureIs500 ==
    (svc.pc = "done" /\ svc.remote > 0) =>
        /\ ~svc.raised
        /\ svc.mode \in DOMAIN RemoteFailures =>
               svc.response.status = 500 /\ C20_ErrorBody(svc)
        /\ ProcessorReturned(svc) =>
               /\ svc.response.status = 200
               /\ svc.response.body = JsonDict(svc.result)
               /\ ProcessorFailed(svc) => C20_ErrorBody(svc)
        /\ svc.response.status = 200 => ProcessorReturned(svc)

\* the insights endpoint has answered a request whose second generation
\* step raised and whose other steps succeeded
C20_Witness ==
    /\ svc.pc = "done"
    /\ svc.app = "insights"
    /\ svc.loaded
    /\ Len(svc.gens) = 4
    /\ svc.gens[1].kind = "text"
    /\ svc.gens[2].kind = "raise"
    /\ svc.gens[3].kind = "text"
    /\ svc.gens[4].kind = "text"
    /\ svc.response.status = 200

\* str(e) of the exception step g ends with, "" when the step succeeds
C21_Raised(g) ==
    CASE g.kind = "raise" -> g.exc.text
      [] g.kind = "unexpected" ->
            "INSIGHTS_SVC _generate_text (v2): LLM output unexpected: []"
      [] OTHER -> ""

\* the field step k leaves when the pipeline did g
C21_Field(k, g) ==
    IF g.kind = "text" THEN Strip(g.text)
    ELSE <<"Error generating summary.", "Error generating decisions.",
           "Error generating actions.", "Error analyzing sentiment.">>[k]

\* the failures among the first n steps, in the order of the steps
RECURSIVE C21_Failures(_, _)
C21_Failures(gens, n) ==
    IF n = 0 THEN <<>>
    ELSE IF gens[n].kind = "text" THEN C21_Failures(gens, n - 1)
    ELSE Append(C21_Failures(gens, n - 1),
                <<"Summary", "Decisions", "Actions", "Sentiment">>[n]
                    \o ": " \o C21_Raised(gens[n]))

\* the failures joined with "; "
RECURSIVE C21_Joined(_)
C21_Joined(fs) ==
    IF fs = <<>> THEN ""
    ELSE IF Len(fs) = 1 THEN fs[1]
    ELSE fs[1] \o "; " \o C21_Joined(Tail(fs))

\* C21: process_transcript_insights runs its generation steps in the order
\* summary, decisions, actions, sentiment, and runs all four whichever of
\* them raise: after n steps the first n fields are set and the others are
\* still empty, a step that raised leaves its fixed error text, a step
\* that succeeded leaves its generated text, and the error returned is the
\* "; "-joined list of the failures in the order of the steps.
C21_StepsInOrder ==
    (svc.app = "insights" /\ svc.loaded) =>
        LET n == Len(svc.gens)
            keys == <<"summary", "decisions", "actions", "sentiment">>
        IN  /\ n <= 4
            /\ \A k \in 1..4 :
                   svc.results[keys[k]] = IF k <= n THEN C21_Field(k, svc.gens[k]) ELSE ""
            /\ svc.errors = C21_Failures(svc.gens, n)
            /\ svc.pc = "processing" <=> n < 4
            /\ svc.pc # "processing" =>
                   /\ \A k \in 1..4 : svc.result[keys[k]] = C21_Field(k, svc.gens[k])
                   /\ svc.result["error"] = C21_Joined(C21_Failures(svc.gens, 4))

\* the first and third steps raised, the second and fourth succeeded
C21_Witness ==
    /\ svc.app = "insights"
    /\ svc.pc = "returned"
    /\ svc.loaded
    /\ Len(svc.gens) = 4
    /\ svc.gens[1].kind = "raise"
    /\ svc.gens[2].kind = "text"
    /\ svc.gens[3] = PipelineUnexpected
    /\ svc.gens[4].kind = "text"
    /\ svc.result["decisions"] = "The team agreed on the plan."
    /\ svc.result["actions"] = "Error generating actions."
    /\ svc.result["error"] =
           "Summary: CUDA out of memory; Actions: INSIGHTS_SVC _generate_text (v2): LLM output unexpected: []"

(***************************************************************************)
(* Properties of client and service together                               *)
(***************************************************************************)
\* the four generation steps ran for the request; some raised, some did not
C22_PartialFailure(s) ==
    /\ s.app = "insights"
    /\ s.loaded
    /\ Len(s.gens) = 4
    /\ \E i \in 1..4 : s.gens[i].kind # "text"
    /\ \E i \in 1..4 : s.gens[i].kind = "text"

\* C22: when some but not all of the four generation steps fail, the
\* insights endpoint answers 200 with the fields that were generated and a
\* non-empty error, and the client returns the error message in the
\* summary slot and empty decisions, actions and sentiment: none of the
\* generated fields reaches the user.
C22_PartialResultsDiscarded ==
    (C22_PartialFailure(svc) /\ svc.pc = "done") =>
        LET body == svc.response.body
            keys == <<"summary", "decisions", "actions", "sentiment">>
        IN  /\ svc.response.status = 200
            /\ body.kind = "dict"
            /\ \A k \in 1..4 :
                   svc.gens[k].kind = "text" => body.d[keys[k]] = Strip(svc.gens[k].text)
            /\ body.d["error"] # ""
            /\ InsightsDone(cur) =>
                   cur.out = <<"AI Service Error (Insights): " \o body.d["error"], "", "", "">>

\* the call has returned for a request whose sentiment step alone raised
C22_Witness ==
    /\ C22_PartialFailure(svc)
    /\ InsightsDone(cur)
    /\ svc.gens[1] = PipelineText(" The team agreed on the plan. ")
    /\ svc.gens[2].kind = "text"
    /\ svc.gens[3].kind = "text"
    /\ svc.gens[4].kind = "raise"
    /\ svc.response.body.d["summary"] = "The team agreed on the plan."
    /\ cur.out[1] = "AI Service Error (Insights): Sentiment: CUDA out of memory"

\* C23: an endpoint answers the same whether .remote gives it the
\* processor's dict or an awaitable that resolves to that dict, in both
\* cases status 200 with exactly that dict as body; a result that is
\* neither awaitable nor dict, and an awaitable that resolves to a
\* non-dict, are answered with status 500 and an error body.
C23_AwaitableAsDict ==
    svc.pc = "done" =>
        /\ svc.mode \in {"dict", "awaitable"} =>
               svc.response = Response(200, JsonDict(svc.result))
        /\ ( /\ ref.pc = "done"
             /\ ref.app = svc.app
             /\ ref.result = svc.result
             /\ {ref.mode, svc.mode} = {"dict", "awaitable"} ) =>
               ref.response = svc.response
        /\ svc.mode \in {"other", "awaitable_nondict"} =>
               svc.response.status = 500 /\ C20_ErrorBody(svc)

\* the legacy endpoint given an awaitable after having been given the same
\* dict already resolved
C23_Witness ==
    /\ svc.pc = "done"
    /\ ref.pc = "done"
    /\ svc.app = "legacy"
    /\ ref.app = "legacy"
    /\ ref.mode = "dict"
    /\ svc.mode = "awaitable"
    /\ ref.result = svc.result
    /\ svc.result["error"] # ""
    /\ svc.response.status = 200

====
